---- MODULE Spec2Model ----
(***************************************************************************)
(* A model of src/layered_world.js: LayeredWorld (the two layer indices,   *)
(* the two entity counts), Entity (layer, _nextLayer, #components,         *)
(* #nextComponents) and the component pool.                                *)
(*                                                                         *)
(* JS Map and Set keep insertion order, so a layer index is a sequence of  *)
(* <<key, members>> entries and a layer set is a sequence of entities      *)
(* without repetition.                                                     *)
(*                                                                         *)
(* Property maps: a Map made by `new Map()` (Entity.add, Entity            *)
(* .applyChanges) is referenced from exactly one slot of one entity, so it *)
(* is held by value in that slot (ref = 0). A property map that comes from *)
(* a caller's ComponentMap (Entity.merge stores the caller's object) is    *)
(* held by reference (ref = i, the caller's i-th ComponentMap) and its     *)
(* content lives in mapProps, where every holder of the reference sees it. *)
(***************************************************************************)
EXTENDS Integers, Sequences, FiniteSets, TLC

\* ---------------------------------------------------------------- bounds
MaxEnts == 2        \* entities the caller creates in one run
NumLayers == 2      \* layer keys the caller uses
NumComps == 1       \* components of the pool
NumProps == 1       \* properties declared for each component of the pool
MaxVal == 2         \* values the caller writes with set
MaxArgs == 2        \* arguments of one add(...)/remove(...) call
MinCount == 2       \* how far below zero the staged count may be driven
MaxCalls == 7       \* calls of one run of Spec, where every operation is offered
NumMoveLayers == 3  \* layer keys of the runs that follow one entity through its moves
MoveEnts == 1       \* entities of those runs
MaxKeys == 2        \* layer keys of one forEachEntityIn(fn, ...) call

\* ------------------------------------------------------------- constants
Null == 0           \* JS null: Entity.layer before the first commit

Ents == 1..MaxEnts
Layers == 1..NumLayers
PoolComps == 1..NumComps
CompNames == 0..NumComps      \* 0: a name that is not in the pool
DeclProps == 1..NumProps
PropNames == 0..NumProps      \* 0: a name no component declares
Vals == 1..MaxVal
DefaultVal == 0               \* the pool's default of every declared property
MapVal == MaxVal              \* the value the caller's ComponentMaps hold

VARIABLES
    created,          \* number of Entity objects constructed so far (handles 1..created)
    layer,            \* Entity.layer
    nextLayer,        \* Entity._nextLayer
    components,       \* Entity.#components:     component -> slot
    nextComponents,   \* Entity.#nextComponents: component -> slot
    mapProps,         \* content of the property maps of the caller's ComponentMaps
    layers,           \* LayeredWorld.#layers
    nextLayers,       \* LayeredWorld.#nextLayers
    entityCount,      \* LayeredWorld.entityCount
    nextEntityCount,  \* LayeredWorld.#nextEntityCount
    last,             \* the last call and how it ended
    calls,            \* calls made so far in a run of bounded length
    carry,            \* history: per entity, component and property, the value of the
                      \* last successful set that no later call on the component
                      \* followed, and whether a commit has promoted it since
    track,            \* history: per entity and component, whether add staged it in
                      \* this frame, and what followed
    moved,            \* history: the entity and the target of the call before, when
                      \* it was a moveEntity that returned
    merged,           \* history: per entity and component, the content the caller's
                      \* property map had when merge staged it, until a later call
                      \* names the component or a second commit passes
    iter,             \* a forEachEntity / forEachEntityIn in progress: the entities
                      \* its index held when it started and those visited so far
    ids,              \* the identities of the Set objects of #layers and #nextLayers,
                      \* entry by entry
    commits           \* history: how many of the last calls were applyChanges (0, 1,
                      \* or 2 for two and more)

vars == <<created, layer, nextLayer, components, nextComponents, mapProps,
          layers, nextLayers, entityCount, nextEntityCount, last, calls,
          carry, track, moved, merged, iter, ids, commits>>

entityVars == <<components, nextComponents, mapProps>>
worldVars == <<created, layer, nextLayer, layers, nextLayers, entityCount, nextEntityCount>>

\* ------------------------------------------------- Map / Set primitives
EmptyMap == <<>>

\* Map.prototype.has on a layer index
IndexHas(idx, k) == \E i \in 1..Len(idx) : idx[i].key = k

IndexPos(idx, k) == CHOOSE i \in 1..Len(idx) : idx[i].key = k

\* Map.prototype.get on a layer index (only where IndexHas)
IndexGet(idx, k) == idx[IndexPos(idx, k)].members

\* Map.prototype.set on a layer index: an existing key keeps its place
IndexSet(idx, k, s) ==
    IF IndexHas(idx, k)
    THEN [idx EXCEPT ![IndexPos(idx, k)].members = s]
    ELSE Append(idx, [key |-> k, members |-> s])

SeqHas(s, e) == \E i \in 1..Len(s) : s[i] = e

\* Set.prototype.add: a member keeps its place, a new one goes last
SetAdd(s, e) == IF SeqHas(s, e) THEN s ELSE Append(s, e)

\* Set.prototype.delete
SetDelete(s, e) == SelectSeq(s, LAMBDA x : x # e)

RECURSIVE Flatten(_)
Flatten(idx) ==
    IF idx = <<>> THEN <<>> ELSE Head(idx).members \o Flatten(Tail(idx))

Call(op, res) == [op |-> op, res |-> res]

\* ------------------------------------------------------ component pool
\* ComponentMap.has / .get(c).has / .get(c).get(p) on the world's pool
PoolHas(c) == c \in PoolComps

PoolDeclares(c, p) == p \in DeclProps

PoolDefault(c, p) == DefaultVal

\* ------------------------------------------- the caller's ComponentMaps
\* The component names of each ComponentMap the caller passes to merge, in
\* insertion order: one of every pool component, one whose property map
\* holds an undeclared name, one with a name the pool lacks after a valid
\* one.
MapEntries == << [i \in 1..NumComps |-> i], <<1>>, <<1, 0>> >>

Maps == DOMAIN MapEntries

InitMapProps ==
    [i \in Maps |-> [c \in CompNames |->
        IF SeqHas(MapEntries[i], c) /\ c \in PoolComps
        THEN (IF i = 2 THEN [p \in {0} |-> MapVal] ELSE [p \in {1} |-> MapVal])
        ELSE EmptyMap]]

\* ------------------------------------------------------ property maps
OwnSlot(f) == [ref |-> 0, props |-> f]

RefSlot(i) == [ref |-> i, props |-> EmptyMap]

\* the content of the property map a slot of component c holds
SlotProps(mp, slot, c) == IF slot.ref = 0 THEN slot.props ELSE mp[slot.ref][c]

MapPut(f, k, v) == [x \in (DOMAIN f) \cup {k} |-> IF x = k THEN v ELSE f[x]]

MapDel(f, k) == [x \in (DOMAIN f) \ {k} |-> f[x]]

\* ----------------------------------------------------------- history
\* nothing set: v = 0 stands for no value
NoCarry == [e \in Ents |-> [c \in PoolComps |-> [p \in DeclProps |-> [v |-> 0, seen |-> FALSE]]]]

NoTrack == [e \in Ents |-> [c \in PoolComps |-> "none"]]

\* the call before was not a moveEntity that returned
NoMove == [e |-> 0, t |-> 0]

\* no iteration in progress
NoIter == [on |-> FALSE, kind |-> "all", keys |-> <<>>, start |-> <<>>, seen |-> <<>>]

\* two empty indices
NoIds == [cur |-> <<>>, nxt |-> <<>>]

\* no merge staged the component
NoMerge == [e \in Ents |-> [c \in PoolComps |-> [st |-> "none", props |-> EmptyMap]]]

\* ------------------------------------------------------------- state
Init ==
    /\ created = 0
    /\ layer = [e \in Ents |-> Null]
    /\ nextLayer = [e \in Ents |-> Null]
    /\ components = [e \in Ents |-> EmptyMap]
    /\ nextComponents = [e \in Ents |-> EmptyMap]
    /\ mapProps = InitMapProps
    /\ layers = <<>>
    /\ nextLayers = <<>>
    /\ entityCount = 0
    /\ nextEntityCount = 0
    /\ last = Call("new", "ok")
    /\ calls = 0
    /\ carry = NoCarry
    /\ track = NoTrack
    /\ moved = NoMove
    /\ merged = NoMerge
    /\ iter = NoIter
    /\ ids = NoIds
    /\ commits = 0

Handles == 1..created

\* ------------------------------------------------------ LayeredWorld
PokeLayer(nl, k) == IF IndexHas(nl, k) THEN nl ELSE IndexSet(nl, k, <<>>)

CreateEntity(l) ==
    /\ created < MaxEnts
    /\ LET e == created + 1 IN
        /\ created' = e
        /\ layer' = [layer EXCEPT ![e] = Null]
        /\ nextLayer' = [nextLayer EXCEPT ![e] = l]
        /\ components' = [components EXCEPT ![e] = EmptyMap]
        /\ nextComponents' = [nextComponents EXCEPT ![e] = EmptyMap]
        /\ nextLayers' = LET nl == PokeLayer(nextLayers, l)
                         IN IndexSet(nl, l, SetAdd(IndexGet(nl, l), e))
        /\ nextEntityCount' = nextEntityCount + 1
        /\ last' = Call("createEntity", "ok")
        /\ UNCHANGED <<mapProps, layers, entityCount>>

\* the key destroyEntity looks up in #nextLayers
DestroyKey(e) == layer[e]

\* #nextLayers.get(key) is undefined: .delete raises a TypeError
DestroyThrows(nl, e) == ~IndexHas(nl, DestroyKey(e))

\* #nextLayers after the delete of destroyEntity
DestroyIndex(nl, e) ==
    IndexSet(nl, DestroyKey(e), SetDelete(IndexGet(nl, DestroyKey(e)), e))

DestroyEntity(e) ==
    /\ e \in Handles
    /\ IF DestroyThrows(nextLayers, e)
       THEN /\ last' = Call("destroyEntity", "TypeError")
            /\ UNCHANGED <<worldVars, entityVars>>
       ELSE /\ nextEntityCount > -MinCount
            /\ nextLayers' = DestroyIndex(nextLayers, e)
            /\ nextLayer' = [nextLayer EXCEPT ![e] = Null]
            /\ nextEntityCount' = nextEntityCount - 1
            /\ last' = Call("destroyEntity", "ok")
            /\ UNCHANGED <<created, layer, layers, entityCount, entityVars>>

MoveEntity(e, t) ==
    /\ e \in Handles
    /\ LET nl == PokeLayer(nextLayers, t) IN
       IF DestroyThrows(nl, e)
       THEN /\ nextLayers' = nl
            /\ last' = Call("moveEntity", "TypeError")
            /\ UNCHANGED <<created, layer, nextLayer, layers, entityCount,
                           nextEntityCount, entityVars>>
       ELSE /\ nextLayers' = LET nd == DestroyIndex(nl, e)
                             IN IndexSet(nd, t, SetAdd(IndexGet(nd, t), e))
            /\ nextLayer' = [nextLayer EXCEPT ![e] = t]
            /\ nextEntityCount' = (nextEntityCount - 1) + 1
            /\ last' = Call("moveEntity", "ok")
            /\ UNCHANGED <<created, layer, layers, entityCount, entityVars>>

\* an Entity.applyChanges that leaves #nextComponents empty
EntityApplyEmpty(st, e) ==
    [layer |-> [st.layer EXCEPT ![e] = nextLayer[e]],
     comps |-> [st.comps EXCEPT ![e] = st.next[e]],
     next  |-> [st.next EXCEPT ![e] = EmptyMap]]

\* Entity.applyChanges on the entity fields st = [layer, comps, next]
EntityApply(st, e) ==
    [layer |-> [st.layer EXCEPT ![e] = nextLayer[e]],
     comps |-> [st.comps EXCEPT ![e] = st.next[e]],
     next  |-> [st.next EXCEPT ![e] =
                  [c \in DOMAIN st.next[e] |->
                      OwnSlot(SlotProps(mapProps, st.next[e][c], c))]]]

\* the forEach of applyChanges: Entity.applyChanges once per member visited
RECURSIVE ApplyRun(_, _)
ApplyRun(visit, st) ==
    IF visit = <<>> THEN st
    ELSE ApplyRun(Tail(visit), EntityApply(st, Head(visit)))

\* the fresh #nextLayers applyChanges builds from the promoted index
CopyIndex(idx) == [i \in 1..Len(idx) |-> [key |-> idx[i].key, members |-> idx[i].members]]

\* a commit that keeps the old current index
PromotedStale == layers

\* what applyChanges promotes to #layers
Promoted == nextLayers

ApplyChanges ==
    LET st == ApplyRun(Flatten(Promoted),
                       [layer |-> layer, comps |-> components, next |-> nextComponents])
    IN /\ layers' = Promoted
       /\ nextLayers' = CopyIndex(Promoted)
       /\ layer' = st.layer
       /\ components' = st.comps
       /\ nextComponents' = st.next
       /\ entityCount' = nextEntityCount
       /\ last' = Call("applyChanges", "ok")
       /\ UNCHANGED <<created, nextLayer, mapProps, nextEntityCount>>

\* forEachEntity: the entities visited, in order
ForEachEntity == Flatten(layers)

\* a forEachEntityIn that walks the staged index
RECURSIVE ForEachEntityInStaged(_)
ForEachEntityInStaged(keys) ==
    IF keys = <<>> THEN <<>>
    ELSE (IF IndexHas(nextLayers, Head(keys)) THEN IndexGet(nextLayers, Head(keys)) ELSE <<>>)
         \o ForEachEntityInStaged(Tail(keys))

\* forEachEntityIn(fn, ...keys): the entities visited, in order
RECURSIVE ForEachEntityIn(_)
ForEachEntityIn(keys) ==
    IF keys = <<>> THEN <<>>
    ELSE (IF IndexHas(layers, Head(keys)) THEN IndexGet(layers, Head(keys)) ELSE <<>>)
         \o ForEachEntityIn(Tail(keys))

\* ------------------------------------------------------------ Entity
\* #validateComponentInPool raises
NotInPool(c) == ~PoolHas(c)

\* #validateComponentInEntity raises
NotInEntity(e, c) == c \notin DOMAIN components[e]

\* has(component)
Has(e, c) == c \in DOMAIN components[e]

\* get(component, property): how the call ends and what it returns
Get(e, c, p) ==
    IF NotInEntity(e, c) THEN [res |-> "Error", val |-> Null]
    ELSE IF ~PoolHas(c) THEN [res |-> "TypeError", val |-> Null]
    ELSE IF ~PoolDeclares(c, p) THEN [res |-> "Error", val |-> Null]
    ELSE LET propertyMap == SlotProps(mapProps, components[e][c], c) IN
         IF p \in DOMAIN propertyMap
         THEN [res |-> "ok", val |-> propertyMap[p]]
         ELSE [res |-> "ok", val |-> PoolDefault(c, p)]

\* the argument lists of add(...) and remove(...)
ArgLists == UNION {[1..k -> CompNames] : k \in 1..MaxArgs}

\* an add that keeps the property map a component already has staged
RECURSIVE AddRunKeep(_, _)
AddRunKeep(nc, cs) ==
    IF cs = <<>> THEN [next |-> nc, res |-> "ok"]
    ELSE IF NotInPool(Head(cs)) THEN [next |-> nc, res |-> "Error"]
    ELSE IF Head(cs) \in DOMAIN nc THEN AddRunKeep(nc, Tail(cs))
    ELSE AddRunKeep(MapPut(nc, Head(cs), OwnSlot(EmptyMap)), Tail(cs))

\* the forEach of add: #nextComponents when it ends, and how it ends
RECURSIVE AddRun(_, _)
AddRun(nc, cs) ==
    IF cs = <<>> THEN [next |-> nc, res |-> "ok"]
    ELSE IF NotInPool(Head(cs)) THEN [next |-> nc, res |-> "Error"]
    ELSE AddRun(MapPut(nc, Head(cs), OwnSlot(EmptyMap)), Tail(cs))

Add(e, cs) ==
    /\ e \in Handles
    /\ LET r == AddRun(nextComponents[e], cs) IN
        /\ nextComponents' = [nextComponents EXCEPT ![e] = r.next]
        /\ last' = Call("add", r.res)
    /\ UNCHANGED <<worldVars, components, mapProps>>

\* a remove that validates against the staged components
RECURSIVE RemoveRunStaged(_, _, _)
RemoveRunStaged(e, nc, cs) ==
    IF cs = <<>> THEN [next |-> nc, res |-> "ok"]
    ELSE IF Head(cs) \notin DOMAIN nc THEN [next |-> nc, res |-> "Error"]
    ELSE RemoveRunStaged(e, MapDel(nc, Head(cs)), Tail(cs))

\* the forEach of remove
RECURSIVE RemoveRun(_, _, _)
RemoveRun(e, nc, cs) ==
    IF cs = <<>> THEN [next |-> nc, res |-> "ok"]
    ELSE IF NotInEntity(e, Head(cs)) THEN [next |-> nc, res |-> "Error"]
    ELSE RemoveRun(e, MapDel(nc, Head(cs)), Tail(cs))

Remove(e, cs) ==
    /\ e \in Handles
    /\ LET r == RemoveRun(e, nextComponents[e], cs) IN
        /\ nextComponents' = [nextComponents EXCEPT ![e] = r.next]
        /\ last' = Call("remove", r.res)
    /\ UNCHANGED <<worldVars, components, mapProps>>

\* what merge stores for an entry of the caller's i-th ComponentMap
MergeSlot(i, c) == RefSlot(i)

\* the forEach of merge over the entries cs of the caller's i-th ComponentMap
RECURSIVE MergeRun(_, _, _)
MergeRun(i, nc, cs) ==
    IF cs = <<>> THEN [next |-> nc, res |-> "ok"]
    ELSE IF NotInPool(Head(cs)) THEN [next |-> nc, res |-> "Error"]
    ELSE MergeRun(i, MapPut(nc, Head(cs), MergeSlot(i, Head(cs))), Tail(cs))

Merge(e, i) ==
    /\ e \in Handles
    /\ LET r == MergeRun(i, nextComponents[e], MapEntries[i]) IN
        /\ nextComponents' = [nextComponents EXCEPT ![e] = r.next]
        /\ last' = Call("merge", r.res)
    /\ UNCHANGED <<worldVars, components, mapProps>>

\* how set(component, property, value) ends
SetResult(e, c, p) ==
    IF NotInEntity(e, c) THEN "Error"
    ELSE IF ~PoolHas(c) THEN "TypeError"
    ELSE IF ~PoolDeclares(c, p) THEN "Error"
    ELSE IF c \notin DOMAIN nextComponents[e] THEN "TypeError"
    ELSE "ok"

Set(e, c, p, v) ==
    /\ e \in Handles
    /\ last' = Call("set", SetResult(e, c, p))
    /\ IF SetResult(e, c, p) # "ok"
       THEN UNCHANGED <<worldVars, entityVars>>
       ELSE LET slot == nextComponents[e][c] IN
            /\ IF slot.ref = 0
               THEN /\ nextComponents' =
                         [nextComponents EXCEPT ![e][c].props = MapPut(slot.props, p, v)]
                    /\ UNCHANGED mapProps
               ELSE /\ mapProps' =
                         [mapProps EXCEPT ![slot.ref][c] = MapPut(mapProps[slot.ref][c], p, v)]
                    /\ UNCHANGED nextComponents
            /\ UNCHANGED <<worldVars, components>>

\* ------------------------------------------------------ specification
\* one more call of a run of at most MaxCalls calls
Tick == calls < MaxCalls /\ calls' = calls + 1 /\ UNCHANGED <<carry, track, moved, merged, iter, ids, commits>>

\* one more call of such a run, counted when it is an applyChanges
TickCommits(n) ==
    /\ calls < MaxCalls
    /\ calls' = calls + 1
    /\ commits' = n
    /\ UNCHANGED <<carry, track, moved, merged, iter, ids>>

\* a call of a run of any length
Free == UNCHANGED <<calls, carry, track, moved, merged, iter, ids, commits>>

\* every operation, in runs of at most MaxCalls calls
Next ==
    \/ \E l \in Layers : Tick /\ CreateEntity(l)
    \/ \E e \in Ents : Tick /\ DestroyEntity(e)
    \/ \E e \in Ents, t \in Layers : Tick /\ MoveEntity(e, t)
    \/ Tick /\ ApplyChanges
    \/ \E e \in Ents, cs \in ArgLists : Tick /\ Add(e, cs)
    \/ \E e \in Ents, cs \in ArgLists : Tick /\ Remove(e, cs)
    \/ \E e \in Ents, i \in Maps : Tick /\ Merge(e, i)
    \/ \E e \in Ents, c \in CompNames, p \in PropNames, v \in Vals : Tick /\ Set(e, c, p, v)

Spec == Init /\ [][Next]_vars

\* the world's operations alone, in runs of any length
WorldNext ==
    \/ \E l \in Layers : Free /\ CreateEntity(l)
    \/ \E e \in Ents : Free /\ DestroyEntity(e)
    \/ \E e \in Ents, t \in Layers : Free /\ MoveEntity(e, t)
    \/ Free /\ ApplyChanges

SpecWorld == Init /\ [][WorldNext]_vars

\* the world after MaxEnts calls of createEntity(1)
InitEntity ==
    /\ created = MaxEnts
    /\ layer = [e \in Ents |-> Null]
    /\ nextLayer = [e \in Ents |-> 1]
    /\ components = [e \in Ents |-> EmptyMap]
    /\ nextComponents = [e \in Ents |-> EmptyMap]
    /\ mapProps = InitMapProps
    /\ layers = <<>>
    /\ nextLayers = << [key |-> 1, members |-> [i \in 1..MaxEnts |-> i]] >>
    /\ entityCount = 0
    /\ nextEntityCount = MaxEnts
    /\ last = Call("createEntity", "ok")
    /\ calls = 0
    /\ carry = NoCarry
    /\ track = NoTrack
    /\ moved = NoMove
    /\ merged = NoMerge
    /\ iter = NoIter
    /\ ids = [cur |-> <<>>, nxt |-> <<1>>]
    /\ commits = 0

\* the entities' operations and the commit, in runs of any length
EntityNext ==
    \/ \E e \in Ents, cs \in ArgLists : Free /\ Add(e, cs)
    \/ \E e \in Ents, cs \in ArgLists : Free /\ Remove(e, cs)
    \/ \E e \in Ents, i \in Maps : Free /\ Merge(e, i)
    \/ \E e \in Ents, c \in CompNames, p \in PropNames, v \in Vals : Free /\ Set(e, c, p, v)
    \/ Free /\ ApplyChanges

SpecEntity == InitEntity /\ [][EntityNext]_vars

\* ------------------------------------------- the calls, with history
\* the names a forEach of add or merge stages before it ends
RECURSIVE StagedNames(_)
StagedNames(cs) ==
    IF cs = <<>> \/ NotInPool(Head(cs)) THEN {}
    ELSE {Head(cs)} \cup StagedNames(Tail(cs))

\* the names a forEach of remove deletes before it ends
RECURSIVE DeletedNames(_, _)
DeletedNames(e, cs) ==
    IF cs = <<>> \/ NotInEntity(e, Head(cs)) THEN {}
    ELSE {Head(cs)} \cup DeletedNames(e, Tail(cs))

Named(cs) == {cs[i] : i \in 1..Len(cs)}

\* a call of add, remove or merge on e that names the components cs ends
\* what set carried for them
CarryTouch(e, cs) ==
    carry' = [carry EXCEPT ![e] =
                [c \in PoolComps |-> IF c \in Named(cs) THEN NoCarry[e][c] ELSE @[c]]]

\* track of (e, c): "add" once add has staged c in this frame, "add-remove"
\* once remove has deleted it after that, "none" once set or merge has named
\* it; a commit that visits e turns "add" into "added" and "add-remove" into
\* "added-removed", which stand until the next call that names c or the next
\* commit
TrackAdd(e, cs) ==
    /\ CarryTouch(e, cs)
    /\ track' = [track EXCEPT ![e] =
                   [c \in PoolComps |-> IF c \in StagedNames(cs) THEN "add" ELSE @[c]]]
    /\ UNCHANGED <<calls, moved, merged, iter, ids, commits>>

TrackRemove(e, cs) ==
    /\ CarryTouch(e, cs)
    /\ track' = [track EXCEPT ![e] =
                   [c \in PoolComps |->
                      IF c \notin DeletedNames(e, cs) THEN @[c]
                      ELSE IF @[c] \in {"add", "add-remove"} THEN "add-remove"
                      ELSE "none"]]
    /\ UNCHANGED <<calls, moved, merged, iter, ids, commits>>

TrackMerge(e, i) ==
    /\ CarryTouch(e, MapEntries[i])
    /\ track' = [track EXCEPT ![e] =
                   [c \in PoolComps |-> IF c \in StagedNames(MapEntries[i]) THEN "none" ELSE @[c]]]
    /\ UNCHANGED <<calls, moved, merged, iter, ids, commits>>

TrackSet(e, c, p, v) ==
    /\ IF SetResult(e, c, p) = "ok"
       THEN /\ carry' = [carry EXCEPT ![e][c] =
                           [q \in DeclProps |->
                              IF q = p THEN [v |-> v, seen |-> FALSE] ELSE NoCarry[e][c][q]]]
            /\ track' = [track EXCEPT ![e][c] = "none"]
       ELSE UNCHANGED <<carry, track>>
    /\ UNCHANGED <<calls, moved, merged, iter, ids, commits>>

\* the commit promotes what set carried for the entities it visits, and ends the frame
TrackApply ==
    /\ carry' = [e \in Ents |-> [c \in PoolComps |-> [p \in DeclProps |->
                    IF SeqHas(Flatten(Promoted), e) /\ carry[e][c][p].v # 0
                    THEN [carry[e][c][p] EXCEPT !.seen = TRUE]
                    ELSE carry[e][c][p]]]]
    /\ track' = [e \in Ents |-> [c \in PoolComps |->
                    IF ~SeqHas(Flatten(Promoted), e) THEN "none"
                    ELSE IF track[e][c] = "add" THEN "added"
                    ELSE IF track[e][c] = "add-remove" THEN "added-removed"
                    ELSE "none"]]
    /\ UNCHANGED <<calls, moved, merged, iter, ids, commits>>

\* the entities' operations and the commit with their history, in runs of any
\* length, for a caller that merges the ComponentMap of the pool's components
TrackNext ==
    \/ \E e \in Ents, cs \in ArgLists : Add(e, cs) /\ TrackAdd(e, cs)
    \/ \E e \in Ents, cs \in ArgLists : Remove(e, cs) /\ TrackRemove(e, cs)
    \/ \E e \in Ents : Merge(e, 1) /\ TrackMerge(e, 1)
    \/ \E e \in Ents, c \in CompNames, p \in PropNames, v \in Vals :
          Set(e, c, p, v) /\ TrackSet(e, c, p, v)
    \/ ApplyChanges /\ TrackApply

SpecTrack == InitEntity /\ [][TrackNext]_vars

\* ------------------------------------------- the merges, with history
\* a call of add, remove or set on e that names the components cs ends what
\* merge recorded for them
MergedTouch(e, cs) ==
    /\ merged' = [merged EXCEPT ![e] =
                    [c \in PoolComps |-> IF c \in Named(cs) THEN NoMerge[e][c] ELSE @[c]]]
    /\ UNCHANGED <<calls, carry, track, moved, iter, ids, commits>>

\* merge(e, i) records, for the entries it stages, the content they have now
MergedMerge(e, i) ==
    /\ merged' = [merged EXCEPT ![e] =
                    [c \in PoolComps |->
                       IF c \in StagedNames(MapEntries[i])
                       THEN [st |-> "staged", props |-> mapProps[i][c]]
                       ELSE @[c]]]
    /\ UNCHANGED <<calls, carry, track, moved, iter, ids, commits>>

MergedSet(e, c, p) ==
    /\ IF SetResult(e, c, p) = "ok" THEN MergedTouch(e, <<c>>) ELSE MergedTouch(e, <<>>)

\* the commit promotes what merge recorded for the entities it visits; what
\* an earlier commit promoted ends
MergedApply ==
    /\ merged' = [e \in Ents |-> [c \in PoolComps |->
                    IF merged[e][c].st = "staged" /\ SeqHas(Flatten(Promoted), e)
                    THEN [merged[e][c] EXCEPT !.st = "committed"]
                    ELSE IF merged[e][c].st = "committed" THEN NoMerge[e][c]
                    ELSE merged[e][c]]]
    /\ UNCHANGED <<calls, carry, track, moved, iter, ids, commits>>

\* the entities' operations and the commit with the history of the merges, in
\* runs of any length, for a caller that merges the ComponentMap of the
\* pool's components
MergeNext ==
    \/ \E e \in Ents, cs \in ArgLists : Add(e, cs) /\ MergedTouch(e, cs)
    \/ \E e \in Ents, cs \in ArgLists : Remove(e, cs) /\ MergedTouch(e, cs)
    \/ \E e \in Ents : Merge(e, 1) /\ MergedMerge(e, 1)
    \/ \E e \in Ents, c \in CompNames, p \in PropNames, v \in Vals :
          Set(e, c, p, v) /\ MergedSet(e, c, p)
    \/ ApplyChanges /\ MergedApply

SpecMerge == InitEntity /\ [][MergeNext]_vars

\* ------------------------------------- one entity through its moves
MoveLayers == 1..NumMoveLayers

\* a call that is not a moveEntity that returned
MovedNone == moved' = NoMove /\ UNCHANGED <<calls, carry, track, merged, iter, ids, commits>>

\* a moveEntity(e, t): it is remembered when it returned
MovedSet(e, t) ==
    /\ moved' = IF last'.res = "ok" THEN [e |-> e, t |-> t] ELSE NoMove
    /\ UNCHANGED <<calls, carry, track, merged, iter, ids, commits>>

\* the world's operations on MoveEnts entities over MoveLayers layer keys,
\* in runs of any length
MoveNext ==
    \/ \E l \in MoveLayers : created < MoveEnts /\ CreateEntity(l) /\ MovedNone
    \/ \E e \in Ents : DestroyEntity(e) /\ MovedNone
    \/ \E e \in Ents, t \in MoveLayers : MoveEntity(e, t) /\ MovedSet(e, t)
    \/ ApplyChanges /\ MovedNone

SpecMove == Init /\ [][MoveNext]_vars

\* ------------------------------------ iteration with a calling visitor
\* the n smallest identities that no object of used has: those of new Set()
RECURSIVE FreshIds(_, _)
FreshIds(used, n) ==
    IF n = 0 THEN <<>>
    ELSE LET x == CHOOSE x \in 1..(Cardinality(used) + 1) :
                      x \notin used /\ \A y \in 1..(x - 1) : y \in used
         IN <<x>> \o FreshIds(used \cup {x}, n - 1)

\* Only which objects are the same matters: the identities of r, renamed in
\* the order of their first entry (those of #layers first)
Renamed(r) ==
    LET all == r.cur \o r.nxt
        First(x) == CHOOSE i \in 1..Len(all) : all[i] = x /\ \A j \in 1..(i - 1) : all[j] # x
        Rank(x) == Cardinality({all[j] : j \in 1..First(x)})
    IN [cur |-> [i \in 1..Len(r.cur) |-> Rank(r.cur[i])],
        nxt |-> [i \in 1..Len(r.nxt) |-> Rank(r.nxt[i])]]

\* #pokeLayer(k): a new Set for a key #nextLayers lacks
IdsPoke(k) ==
    IF IndexHas(nextLayers, k) THEN ids
    ELSE Renamed([ids EXCEPT !.nxt =
                    Append(@, FreshIds(Named(ids.cur) \cup Named(ids.nxt), 1)[1])])

\* applyChanges: #layers takes the Sets of #nextLayers, which gets new ones
\* (the Sets #layers held are unreachable from then on)
IdsApply == Renamed([cur |-> ids.nxt, nxt |-> FreshIds(Named(ids.nxt), Len(ids.nxt))])

\* the entities the iteration in progress walks, as #layers is now
Walk == IF iter.kind = "all" THEN ForEachEntity ELSE ForEachEntityIn(iter.keys)

IterKeep == UNCHANGED <<calls, carry, track, moved, merged, commits>>

\* forEachEntity(fn) or forEachEntityIn(fn, ...keys) is called
IterStart(kind, keys) ==
    /\ ~iter.on
    /\ iter' = [on |-> TRUE, kind |-> kind, keys |-> keys,
                start |-> IF kind = "all" THEN ForEachEntity ELSE ForEachEntityIn(keys),
                seen |-> <<>>]
    /\ UNCHANGED <<worldVars, entityVars, last, ids>>
    /\ IterKeep

\* the forEach reaches its next entity and calls the visitor on it
IterVisit ==
    /\ iter.on
    /\ Len(iter.seen) < Len(Walk)
    /\ iter' = [iter EXCEPT !.seen = Append(@, Walk[Len(@) + 1])]
    /\ UNCHANGED <<worldVars, entityVars, last, ids>>
    /\ IterKeep

\* the forEach finds no further entity and returns
IterEnd ==
    /\ iter.on
    /\ Len(iter.seen) >= Len(Walk)
    /\ iter' = NoIter
    /\ UNCHANGED <<worldVars, entityVars, last, ids>>
    /\ IterKeep

\* the world's operations, called between iterations or by the visitor of
\* one (applyChanges only between iterations), in runs of any length
IterNext ==
    \/ \E l \in Layers : CreateEntity(l) /\ ids' = IdsPoke(l) /\ UNCHANGED iter /\ IterKeep
    \/ \E e \in Ents : DestroyEntity(e) /\ UNCHANGED <<iter, ids, commits>> /\ IterKeep
    \/ \E e \in Ents, t \in Layers :
          MoveEntity(e, t) /\ ids' = IdsPoke(t) /\ UNCHANGED iter /\ IterKeep
    \/ ~iter.on /\ ApplyChanges /\ ids' = IdsApply /\ UNCHANGED iter /\ IterKeep
    \/ IterStart("all", <<>>)
    \/ \E k \in Layers : IterStart("in", <<k>>)
    \/ IterVisit
    \/ IterEnd

SpecIter == Init /\ [][IterNext]_vars

\* ------------------------------------------- commits, with their count
\* two and more applyChanges in a row count as two
MoreCommits == IF commits < 2 THEN commits + 1 ELSE 2

\* every operation, in runs of at most MaxCalls calls, with the count of the
\* applyChanges calls that end the run so far
CommitsNext ==
    \/ \E l \in Layers : TickCommits(0) /\ CreateEntity(l)
    \/ \E e \in Ents : TickCommits(0) /\ DestroyEntity(e)
    \/ \E e \in Ents, t \in Layers : TickCommits(0) /\ MoveEntity(e, t)
    \/ TickCommits(MoreCommits) /\ ApplyChanges
    \/ \E e \in Ents, cs \in ArgLists : TickCommits(0) /\ Add(e, cs)
    \/ \E e \in Ents, cs \in ArgLists : TickCommits(0) /\ Remove(e, cs)
    \/ \E e \in Ents, i \in Maps : TickCommits(0) /\ Merge(e, i)
    \/ \E e \in Ents, c \in CompNames, p \in PropNames, v \in Vals :
          TickCommits(0) /\ Set(e, c, p, v)

SpecCommits == Init /\ [][CommitsNext]_vars

\* ------------------------------------------------------------ claims
\* the property maps of a component map, by value
CompValue(mp, cm) == [c \in DOMAIN cm |-> SlotProps(mp, cm[c], c)]

\* e is a member of the set of key k of a layer index
InSet(idx, k, e) == IndexHas(idx, k) /\ SeqHas(IndexGet(idx, k), e)

\* what the readers return: has, get, forEachEntity, forEachEntityIn,
\* Entity.layer and entityCount
Readers ==
    [has     |-> [e \in Ents |-> [c \in CompNames |-> Has(e, c)]],
     get     |-> [e \in Ents |-> [c \in CompNames |-> [p \in PropNames |-> Get(e, c, p)]]],
     visit   |-> ForEachEntity,
     visitIn |-> [k \in Layers |-> ForEachEntityIn(<<k>>)],
     layer   |-> layer,
     count   |-> entityCount]

\* C1: generation isolation. A call that is not applyChanges leaves every
\* result of has and get, the entities forEachEntity and forEachEntityIn
\* visit, Entity.layer and entityCount as they were.
C1_GenerationIsolation ==
    [][last'.op # "applyChanges" => Readers' = Readers]_vars

\* C2: commit atomicity. One applyChanges promotes the staged layer index,
\* every member's _nextLayer and nextComponents and the staged count
\* together, and leaves the next generation an equal-valued copy of the
\* current one, made of fresh property maps.
C2_CommitAtomicity ==
    [][last'.op = "applyChanges" =>
        /\ layers' = nextLayers
        /\ entityCount' = nextEntityCount
        /\ nextLayers' = layers'
        /\ \A i \in 1..Len(Flatten(nextLayers)) :
             LET e == Flatten(nextLayers)[i] IN
               /\ layer'[e] = nextLayer[e]
               /\ CompValue(mapProps', components'[e]) = CompValue(mapProps, nextComponents[e])
               /\ CompValue(mapProps', nextComponents'[e]) = CompValue(mapProps', components'[e])
               /\ \A c \in DOMAIN nextComponents'[e] : nextComponents'[e][c].ref = 0
    ]_vars

\* a commit has just promoted a moved entity with a component and a destroy
C2_Witness ==
    /\ last.op = "applyChanges"
    /\ \E e \in Handles :
         /\ InSet(layers, 2, e)
         /\ \E c \in PoolComps : c \in DOMAIN components[e]
    /\ \E e \in Handles : layer[e] # Null /\ ~SeqHas(Flatten(layers), e)

\* the current layer sets that hold e
LayersOf(e) == {k \in Layers : InSet(layers, k, e)}

\* C3: layer partition. Right after applyChanges every entity of the current
\* index is in exactly one current layer set, the one of its layer field,
\* and entityCount is the sum of the sizes of the current layer sets.
C3_LayerPartition ==
    last.op = "applyChanges" =>
        /\ \A e \in Handles :
             LayersOf(e) # {} => LayersOf(e) = {layer[e]}
        /\ entityCount = Len(Flatten(layers))

\* C4: next-generation index. e is in the staged set of layer k exactly when
\* e._nextLayer = k; a destroyed entity is in no staged set.
C4_NextIndex ==
    \A e \in Handles : \A k \in Layers :
        InSet(nextLayers, k, e) <=> nextLayer[e] = k

\* C5: idempotent destroy. destroyEntity on an entity that is already
\* destroyed (its _nextLayer is null) leaves the staged count as it is.
C5_IdempotentDestroy ==
    [][\A e \in Handles :
         (DestroyEntity(e) /\ nextLayer[e] = Null)
            => nextEntityCount' = nextEntityCount]_vars

\* C6: destroyEntity on a staged entity does not raise, takes the entity out
\* of the staged set of its _nextLayer, clears _nextLayer and takes one off
\* the staged count.
C6_DestroyStaged ==
    [][\A e \in Handles :
         (DestroyEntity(e) /\ nextLayer[e] # Null /\ InSet(nextLayers, nextLayer[e], e))
            => /\ last'.res = "ok"
               /\ \A k \in Layers : ~InSet(nextLayers', k, e)
               /\ nextLayer'[e] = Null
               /\ nextEntityCount' = nextEntityCount - 1]_vars

\* C7: a call of add, merge, remove or set that raises leaves both component
\* maps of every entity, and the caller's maps, as they were.
C7_NoPartialMutation ==
    [][(last'.op \in {"add", "merge", "remove", "set"} /\ last'.res # "ok")
          => UNCHANGED <<components, nextComponents, mapProps>>]_vars

\* C8: carry-forward. Once a commit has promoted the value v that a
\* successful set(c, p, v) staged, and no add, remove, merge or set of the
\* entity has named c since that set, get(c, p) returns v.
C8_CarryForward ==
    \A e \in Handles : \A c \in PoolComps : \A p \in DeclProps :
        (carry[e][c][p].v # 0 /\ carry[e][c][p].seen)
            => Get(e, c, p) = [res |-> "ok", val |-> carry[e][c][p].v]

\* has(c) is true and get(c, p) is the pool's default for every declared p
ReadsDefaults(e, c) ==
    /\ Has(e, c)
    /\ \A p \in DeclProps : Get(e, c, p) = [res |-> "ok", val |-> PoolDefault(c, p)]

Pending(e) == nextLayer[e] = Null /\ InSet(layers, layer[e], e)

\* e is destroyed and in no layer set of either generation
Gone(e) ==
    /\ nextLayer[e] = Null
    /\ ~SeqHas(Flatten(layers), e)
    /\ ~SeqHas(Flatten(nextLayers), e)

\* C10: deferred destruction. A destroyed committed entity is visited by
\* forEachEntity and forEachEntityIn(e.layer) until the next applyChanges;
\* that applyChanges leaves it in no layer set of either generation; and
\* from then on no call that does not name it brings it back.
C10_DeferredDestruction ==
    [][\A e \in Handles :
         /\ (Pending(e) /\ last'.op # "applyChanges")
               => (SeqHas(ForEachEntity, e) /\ SeqHas(ForEachEntityIn(<<layer[e]>>), e))'
         /\ (Pending(e) /\ last'.op = "applyChanges") => Gone(e)'
         /\ (Gone(e) /\ ~DestroyEntity(e) /\ ~(\E t \in Layers : MoveEntity(e, t)))
               => Gone(e)'
    ]_vars

\* the current layer sets, over the keys of MoveLayers, that hold e
MoveLayersOf(e) == {k \in MoveLayers : InSet(layers, k, e)}

\* what has and get return for e
ReadsOf(e) ==
    [has |-> [c \in CompNames |-> Has(e, c)],
     get |-> [c \in CompNames |-> [p \in PropNames |-> Get(e, c, p)]]]

\* C11: moveEntity(e, t) on a committed entity returns, creates the staged
\* set of t, and leaves the staged count and both component maps as they
\* were; the applyChanges that follows it leaves e in the current set of t
\* and in no other, sets e.layer = t, leaves has and get of e as they were
\* (when nothing else was staged for its components) and entityCount as it
\* was (when nothing else was staged for the count).
C11_MoveThenCommit ==
    [][\A e \in Handles : \A t \in MoveLayers :
         /\ (MoveEntity(e, t) /\ layer[e] # Null)
               => /\ last'.res = "ok"
                  /\ IndexHas(nextLayers', t)
                  /\ nextEntityCount' = nextEntityCount
                  /\ UNCHANGED entityVars
         /\ (moved = [e |-> e, t |-> t] /\ layer[e] # Null /\ t # layer[e]
               /\ last'.op = "applyChanges")
               => /\ MoveLayersOf(e)' = {t}
                  /\ layer'[e] = t
                  /\ (CompValue(mapProps, nextComponents[e]) = CompValue(mapProps, components[e])
                        => ReadsOf(e)' = ReadsOf(e))
                  /\ (nextEntityCount = entityCount => entityCount' = entityCount)
    ]_vars

\* every name of the component map cm is in the pool and every property its
\* property map overrides is declared for it
Conforms(mp, cm) ==
    \A c \in DOMAIN cm :
        /\ PoolHas(c)
        /\ \A p \in DOMAIN SlotProps(mp, cm[c], c) : PoolDeclares(c, p)

\* C12: schema conformance. In every state both component maps of every
\* entity hold only components of the pool, with overrides only of
\* properties the pool declares for them.
C12_SchemaConformance ==
    \A e \in Handles :
        Conforms(mapProps, components[e]) /\ Conforms(mapProps, nextComponents[e])

\* the property maps of both component maps of every entity, by value
AllValues(mp, cur, nxt) ==
    [e \in Ents |-> [cur |-> CompValue(mp, cur[e]), nxt |-> CompValue(mp, nxt[e])]]

\* C13: set(c, p, v) returns exactly when c is in the current components, p
\* is declared for c and c is staged; then the staged override of p in c
\* becomes v and no other property map of any entity changes; in every other
\* case it raises and changes nothing.
C13_SetValidation ==
    [][\A e \in Handles : \A c \in CompNames : \A p \in PropNames : \A v \in Vals :
         Set(e, c, p, v) =>
            IF /\ c \in DOMAIN components[e]
               /\ PoolDeclares(c, p)
               /\ c \in DOMAIN nextComponents[e]
            THEN /\ last'.res = "ok"
                 /\ AllValues(mapProps', components', nextComponents') =
                      [AllValues(mapProps, components, nextComponents)
                         EXCEPT ![e].nxt[c] = MapPut(@, p, v)]
            ELSE /\ last'.res # "ok"
                 /\ UNCHANGED entityVars
    ]_vars

\* c is committed on e and not staged: remove has deleted it and no add or
\* merge has staged it again
Removed(e, c) == c \in DOMAIN components[e] /\ c \notin DOMAIN nextComponents[e]

\* C14 as claimed: remove(c) returns exactly when c is in the current
\* components, whatever is staged, and then c is not staged; otherwise it
\* raises and leaves the staged components as they were; and a component
\* that is removed and not staged again is not in the entity after the next
\* applyChanges.
C14_RemoveValidation_Claimed ==
    [][/\ \A e \in Handles : \A c \in CompNames :
            Remove(e, <<c>>) =>
               IF c \in DOMAIN components[e]
               THEN /\ last'.res = "ok"
                    /\ nextComponents'[e] = MapDel(nextComponents[e], c)
               ELSE /\ last'.res = "Error"
                    /\ nextComponents'[e] = nextComponents[e]
       /\ last'.op = "applyChanges" =>
            \A e \in Handles : \A c \in PoolComps : Removed(e, c) => ~Has(e, c)'
    ]_vars

\* C14 as amended: the same, for the applyChanges of a world that holds the
\* entity in a staged layer set.
C14_RemoveValidation ==
    [][/\ \A e \in Handles : \A c \in CompNames :
            Remove(e, <<c>>) =>
               IF c \in DOMAIN components[e]
               THEN /\ last'.res = "ok"
                    /\ nextComponents'[e] = MapDel(nextComponents[e], c)
               ELSE /\ last'.res = "Error"
                    /\ nextComponents'[e] = nextComponents[e]
       /\ last'.op = "applyChanges" =>
            \A e \in Handles : \A c \in PoolComps :
               (Removed(e, c) /\ SeqHas(Flatten(nextLayers), e)) => ~Has(e, c)'
    ]_vars

\* remove has just deleted a committed component of a staged entity
C14_Witness ==
    /\ last = Call("remove", "ok")
    /\ \E e \in Handles : \E c \in PoolComps :
         Removed(e, c) /\ SeqHas(Flatten(nextLayers), e)

\* the staged entries of e for the components outside cs
StagedOutside(mp, nc, cs) ==
    [c \in (DOMAIN nc) \ Named(cs) |-> SlotProps(mp, nc[c], c)]

\* C15: merge replaces wholesale. After merge(M) and the next applyChanges
\* (no call having named the component in between), the entity's overrides
\* of every component of M are the pairs M held for it when merge was
\* called; and merge leaves the staged components M does not name as they
\* were.
C15_MergeWholesale ==
    [][/\ \A e \in Handles : \A c \in PoolComps :
            (last'.op = "applyChanges" /\ merged'[e][c].st = "committed")
               => /\ c \in DOMAIN components'[e]
                  /\ SlotProps(mapProps', components'[e][c], c) = merged'[e][c].props
       /\ \A e \in Handles : \A i \in Maps :
            Merge(e, i)
               => StagedOutside(mapProps', nextComponents'[e], MapEntries[i])
                    = StagedOutside(mapProps, nextComponents[e], MapEntries[i])
    ]_vars

\* the layer keys a caller passes to forEachEntityIn; 0: a key no layer has
KeyNames == 0..NumLayers

KeyLists == UNION {[1..n -> KeyNames] : n \in 0..MaxKeys}

\* the members of the current set of layer k
Members(k) == {e \in Ents : InSet(layers, k, e)}

\* C16: forEachEntityIn(fn, k1..kn) visits, for each key in argument order,
\* the members of the current set of that key, each once, and nothing for a
\* key the current index lacks, whether or not the staged index has it.
C16_ForEachEntityIn ==
    \A keys \in KeyLists :
        LET v == ForEachEntityIn(keys)
            n == Len(keys)
        IN /\ n = 0 => v = <<>>
           /\ n = 1 => /\ Named(v) = Members(keys[1])
                       /\ Len(v) = Cardinality(Members(keys[1]))
                       /\ ~IndexHas(layers, keys[1]) => v = <<>>
           /\ n > 1 => v = ForEachEntityIn(SubSeq(keys, 1, n - 1))
                              \o ForEachEntityIn(<<keys[n]>>)

\* one layer is staged with a member and not committed, another is current
\* with a member: forEachEntityIn of both visits the second only
C16_Witness ==
    \E k \in Layers : \E j \in Layers :
        /\ IndexHas(nextLayers, k) /\ IndexGet(nextLayers, k) # <<>>
        /\ ~IndexHas(layers, k)
        /\ ForEachEntityIn(<<j>>) # <<>>
        /\ ForEachEntityIn(<<k, j>>) = ForEachEntityIn(<<j>>)

\* no Set object is held by both #layers and #nextLayers
SetsApart == Named(ids.cur) \cap Named(ids.nxt) = {}

\* C17: iteration stability. No Set is ever shared by the current and the
\* next layer index, and a forEachEntity / forEachEntityIn whose visitor
\* calls createEntity, destroyEntity or moveEntity has visited, when it
\* returns, the entities its index held when it started, each once.
C17_IterationStability ==
    [][/\ SetsApart'
       /\ (iter.on /\ ~iter'.on)
             => /\ iter.seen = iter.start
                /\ Cardinality(Named(iter.seen)) = Len(iter.seen)
    ]_vars

\* the entities that are members of some staged layer set
StagedEntities == {e \in Ents : SeqHas(Flatten(nextLayers), e)}

\* C18: staged count consistency. In every state the staged entity count is
\* not negative and is the number of distinct entities in the staged layer
\* sets.
C18_StagedCount ==
    /\ nextEntityCount >= 0
    /\ nextEntityCount = Cardinality(StagedEntities)

\* every property map of the component map cm is the entity's own
OwnMaps(cm) == \A c \in DOMAIN cm : cm[c].ref = 0

\* C19: no aliasing. No property map of an entity is a caller's map (so none
\* is shared with another entity or between the entity's two component
\* maps), and a successful set changes no get result of any entity and no
\* caller's map.
C19_NoAliasing ==
    [][/\ \A e \in Handles : OwnMaps(components'[e]) /\ OwnMaps(nextComponents'[e])
       /\ last' = Call("set", "ok")
             => /\ Readers.get' = Readers.get
                /\ mapProps' = mapProps
    ]_vars

\* everything a caller can observe, and the staged components by value
Observed ==
    [readers |-> Readers,
     cur     |-> layers,
     nxt     |-> nextLayers,
     staged  |-> [e \in Ents |-> CompValue(mapProps, nextComponents[e])],
     maps    |-> mapProps]

\* C20: commit is idempotent. An applyChanges that follows an applyChanges
\* with no call in between leaves entityCount, both layer indices, every
\* entity's layer, has and get results and staged components as they were.
C20_CommitIdempotent ==
    [][(commits = 1 /\ commits' = 2) => Observed' = Observed]_vars

\* a second applyChanges in a row has run on a world with a committed entity
\* that has a component
C20_Witness ==
    /\ commits = 2
    /\ \E e \in Handles :
         /\ SeqHas(Flatten(layers), e)
         /\ \E c \in PoolComps : Has(e, c)

====
